---- MODULE Spec2Model ----
(***************************************************************************)
(* A model of valhalla's elevation pass, src/mjolnir/elevationbuilder.cc:  *)
(* ElevationBuilder::Build, the worker loop                                *)
(* add_elevations_to_multiple_tiles and the per-tile routine               *)
(* add_elevations_to_single_tile.                                          *)
(*                                                                         *)
(* Numbers.  Heights and lengths are whole metres.  Grades and slopes are  *)
(* kept in tenths of a percent (a grade of 12.5% is 125), so that          *)
(* g * .6 + 6.5 is (6*g + 650) / 100.                                      *)
(***************************************************************************)
EXTENDS Integers, Sequences, FiniteSets, TLC

\* ------------------------------------------------------------- bounds
\* Largest configured / hardware concurrency drawn.
MaxConcurrency == 2
\* Number of tiles of the dataset.
NumTiles == 2
\* Longest tile id list handed to Build.
MaxList == 2

\* ---------------------------------------------------- program constants
POSTING_INTERVAL == 60
kMinimumInterval == 10
\* skadi::get_no_data_value() and baldr::kNoElevationData
NO_DATA_VALUE == -32768
kNoElevationData == 32768

Threads == 1..MaxConcurrency
TileSet == 1..NumTiles
None == "none"
kFerry == "ferry"
kRoad == "road"

VARIABLES
  pt,            \* the configuration: additional_data.elevation, mjolnir.concurrency
  hardware,      \* std::thread::hardware_concurrency()
  tile_ids,      \* Build's tile_ids argument: the shared tilequeue
  bpc,           \* where Build is
  bi,            \* Build's position in its spawn / join loop
  nthreads,      \* resolved thread count
  sample,        \* TRUE once the skadi::sample was constructed
  lock,          \* the mutex: 0 when free, else the thread holding it
  wpc,           \* where each thread is
  tile_id,       \* the tile id each thread popped
  tilebuilder,   \* each thread's GraphTileBuilder (its in-memory tile)
  cache,         \* each thread's geo_attribute_cache
  idx,           \* each thread's loop index i (1-based)
  over,          \* each thread's graphreader.OverCommitted()
  disk,          \* the tile store: tile id -> stored tile
  worklist,      \* history: the queue as the threads first saw it
  popped,        \* history: the ids popped, in order
  handed,        \* history: per tile, the calls of add_elevations_to_single_tile
  miss,          \* history: per thread, the cache misses of the current tile
  stores,        \* history: number of StoreTileData calls per tile
  trimmed        \* history: the thread trimmed since it last opened a tile

vars == <<pt, hardware, tile_ids, bpc, bi, nthreads, sample, lock, wpc, tile_id,
          tilebuilder, cache, idx, over, disk, worklist, popped, handed, miss, stores,
          trimmed>>

\* ------------------------------------------------------------ helpers
RECURSIVE SeqSum(_)
SeqSum(s) == IF s = <<>> THEN 0 ELSE Head(s) + SeqSum(Tail(s))

SetMax(S) == CHOOSE x \in S : \A y \in S : y <= x
SetMin(S) == CHOOSE x \in S : \A y \in S : x <= y

Reverse(s) == [k \in 1..Len(s) |-> s[Len(s) + 1 - k]]

\* The element of a one-element set: binds a value once instead of
\* re-evaluating its expression at every use.
The(S) == CHOOSE x \in S : TRUE

\* All sequences over S of length at most n.
RECURSIVE SeqsUpTo(_, _)
SeqsUpTo(S, n) ==
  IF n = 0 THEN {<<>>}
  ELSE LET shorter == SeqsUpTo(S, n - 1)
       IN  shorter \cup {Append(s, x) : s \in {t \in shorter : Len(t) = n - 1}, x \in S}

\* The orderings of a finite set.
Orderings(S) ==
  {s \in [1..Cardinality(S) -> S] : \A a, b \in 1..Cardinality(S) : a # b => s[a] # s[b]}


\* ------------------------------------------------- the terrain service
\* A geographic point is a position (metres) along a named terrain profile.
Terrains == {"flat", "up12", "up15", "up20", "down10", "hill", "void"}

\* skadi::sample::get: the height at a point, or the no-data value.
HeightAt(p) ==
  CASE p.terrain = "flat"   -> 50
    [] p.terrain = "up12"   -> 10 + (12 * p.pos) \div 100
    [] p.terrain = "up15"   -> 10 + (15 * p.pos) \div 100
    [] p.terrain = "up20"   -> 10 + (20 * p.pos) \div 100
    [] p.terrain = "down10" -> 100 - (10 * p.pos) \div 100
    [] p.terrain = "hill"   -> IF p.pos <= 60 THEN 20 + p.pos \div 6
                               ELSE 30 - (p.pos - 60) \div 30
    [] OTHER                -> NO_DATA_VALUE

\* skadi::sample::get_all: the heights of a sequence of points, in order.
GetAll(points) == [k \in 1..Len(points) |-> HeightAt(points[k])]

\* midgard::resample_spherical_polyline: points every `interval` metres
\* along the shape, starting at its first point.
Resample(shape, interval) ==
  LET first == shape[1]
      last  == shape[Len(shape)]
      n     == (last.pos - first.pos) \div interval
  IN  [k \in 1..(n + 1) |-> [terrain |-> first.terrain,
                              pos |-> first.pos + (k - 1) * interval]]

\* The weight skadi gives a section of grade g: climbing costs more.
GradeWeight(g) == IF g > 0 THEN 2 ELSE 1

\* skadi::weighted_grade(heights, interval):
\* <<weighted grade, max up slope, max down slope, mean elevation>>.
\* The weighted grade is the weighted mean of the section grades; sections
\* with a no-data end are left out; the mean is over the valid heights.
WeightedGradeOf(heights, interval) ==
  LET n        == Len(heights)
      ok(k)    == heights[k] # NO_DATA_VALUE /\ heights[k + 1] # NO_DATA_VALUE
      grade(k) == ((heights[k + 1] - heights[k]) * 1000) \div interval
      K        == {k \in 1..(n - 1) : ok(k)}
      gw       == [k \in 1..(n - 1) |->
                     IF ok(k) THEN grade(k) * GradeWeight(grade(k)) ELSE 0]
      ws       == [k \in 1..(n - 1) |-> IF ok(k) THEN GradeWeight(grade(k)) ELSE 0]
      V        == {k \in 1..n : heights[k] # NO_DATA_VALUE}
      hs       == [k \in 1..n |-> IF k \in V THEN heights[k] ELSE 0]
  IN  << IF SeqSum(ws) = 0 THEN 0 ELSE SeqSum(gw) \div SeqSum(ws),
         SetMax({0} \cup {grade(k) : k \in K}),
         SetMin({0} \cup {grade(k) : k \in K}),
         IF V = {} THEN NO_DATA_VALUE ELSE SeqSum(hs) \div Cardinality(V) >>

WeightedGrade(heights, interval) ==
  The({ WeightedGradeOf(h, interval) : h \in {heights} })

\* ------------------------------------------------------- the dataset
EdgeInfo(len, tun, use, br, terr) ==
  [length |-> len, tunnel |-> tun, use |-> use, bridge |-> br, terrain |-> terr]

\* The physical edges the dataset is drawn from.
RoadInfos ==
  { EdgeInfo(100, FALSE, kRoad, FALSE, "flat"),
    EdgeInfo(100, FALSE, kRoad, FALSE, "up12"),
    EdgeInfo(100, FALSE, kRoad, FALSE, "up15"),
    EdgeInfo(100, FALSE, kRoad, FALSE, "down10"),
    EdgeInfo(100, FALSE, kRoad, FALSE, "void"),
    EdgeInfo(200, FALSE, kRoad, FALSE, "up20"),
    EdgeInfo(200, FALSE, kRoad, FALSE, "hill"),
    EdgeInfo(5, FALSE, kRoad, FALSE, "up20"),
    EdgeInfo(5, FALSE, kRoad, FALSE, "void") }
SpecialInfos ==
  { EdgeInfo(200, TRUE, kRoad, FALSE, "up20"),
    EdgeInfo(200, FALSE, kFerry, FALSE, "up20"),
    EdgeInfo(200, FALSE, kRoad, TRUE, "hill") }
EdgeInfos == RoadInfos \cup SpecialInfos
BasicInfos == { EdgeInfo(200, FALSE, kRoad, FALSE, "hill") }

Offsets == {1, 2}

\* The directed edges of tile t: <<EdgeInfoOffset, forward>> per record.
\* Odd tiles hold one physical edge, forward record first; even tiles hold
\* two, the shared one visited reverse record first.
Layout(t) ==
  IF t % 2 = 1 THEN << <<1, TRUE>>, <<1, FALSE>> >>
  ELSE << <<2, FALSE>>, <<1, TRUE>>, <<2, TRUE>> >>

\* A tile as graphbuilder left it: no elevation yet.
InitialTile(t, phys) ==
  [ has_elevation |-> FALSE,
    directededges |->
      [k \in 1..Len(Layout(t)) |->
         LET o == Layout(t)[k][1]
         IN  [ edgeinfo_offset |-> o,
               forward         |-> Layout(t)[k][2],
               length          |-> phys[o].length,
               tunnel          |-> phys[o].tunnel,
               use             |-> phys[o].use,
               bridge          |-> phys[o].bridge,
               weighted_grade  |-> 6,
               max_up_slope    |-> 0,
               max_down_slope  |-> 0 ]],
    edgeinfo |->
      [o \in {Layout(t)[k][1] : k \in 1..Len(Layout(t))} |->
         [ shape |-> << [terrain |-> phys[o].terrain, pos |-> 0],
                        [terrain |-> phys[o].terrain, pos |-> phys[o].length] >>,
           mean_elevation |-> kNoElevationData,
           mean_set       |-> FALSE ]] ]

NoTile == [has_elevation |-> FALSE, directededges |-> <<>>, edgeinfo |-> <<>>]
EmptyCache == <<>>

\* ------------------------------------- add_elevations_to_single_tile
\* A lookup that never finds anything.
CacheNeverFound(c, o) == FALSE

\* Line 63: is the offset in the cache?
CacheFound(c, o) == o \in DOMAIN c

\* The test without the ferry clause.
ShouldSampleFerries(de) == ~de.tunnel

\* Line 72: only edges that are neither tunnels nor ferries are sampled.
ShouldSample(de) == ~de.tunnel /\ de.use # kFerry

\* Line 76: short edges and bridges are sampled at both ends only.
BothEndsOnly(de) == de.length < POSTING_INTERVAL * 3 \/ de.bridge

\* Lines 74-81: the points to sample.
Resampled(de, shape) ==
  IF BothEndsOnly(de) THEN << shape[1], shape[Len(shape)] >>
  ELSE Resample(shape, POSTING_INTERVAL)

\* Lines 74, 78: the interval handed to weighted_grade.
Interval(de) == IF BothEndsOnly(de) THEN de.length ELSE POSTING_INTERVAL

\* A short edge treated like a tunnel: the mean elevation dropped too.
ShortGradesWithoutMean(grades) == <<0, 0, 0, 0>>

\* Lines 89-92: below the minimum interval only the mean elevation is kept.
ShortGrades(grades) == <<0, 0, 0, grades[4]>>

\* The reverse results derived by negating the forward ones, with no second
\* run of weighted_grade.
SampledGradesNegated(de, heights) ==
  The({ [ sampled  |-> TRUE,
          heights  |-> heights,
          interval |-> Interval(de),
          forward_grades |-> IF de.length < kMinimumInterval
                             THEN ShortGrades(grades) ELSE grades,
          reverse_grades |-> IF de.length < kMinimumInterval
                             THEN ShortGrades(grades)
                             ELSE <<0 - grades[1], 0 - grades[3], 0 - grades[2], grades[4]>> ]
        : grades \in {WeightedGrade(heights, Interval(de))} })

\* Lines 87-99: the heights are in hand; run weighted_grade forwards and,
\* unless the edge is below the minimum interval, on the reversed heights.
SampledGrades(de, heights) ==
  The({ [ sampled  |-> TRUE,
          heights  |-> heights,
          interval |-> Interval(de),
          forward_grades |-> IF de.length < kMinimumInterval
                             THEN ShortGrades(grades) ELSE grades,
          reverse_grades |-> IF de.length < kMinimumInterval
                             THEN ShortGrades(grades)
                             ELSE WeightedGrade(Reverse(heights), Interval(de)) ]
        : grades \in {WeightedGrade(heights, Interval(de))} })

\* Lines 70-100: forward_grades and reverse_grades of a cache miss, with
\* whether the service was asked and what it returned.
Grades(de, shape) ==
  IF ShouldSample(de)
  THEN The({ SampledGrades(de, heights) : heights \in {GetAll(Resampled(de, shape))} })
  ELSE [ sampled  |-> FALSE,
         heights  |-> <<>>,
         interval |-> 0,
         forward_grades |-> <<0, 0, 0, 0>>,
         reverse_grades |-> <<0, 0, 0, 0>> ]

\* The bucket clamped to 0..15.
GradeBucketClamped(g) ==
  LET x == 6 * g + 650
  IN  IF x < 0 THEN {0} ELSE IF x >= 1600 THEN {15} ELSE {x \div 100}

\* Lines 103-104: static_cast<uint32_t>(g * .6 + 6.5), g in tenths of a
\* percent.  The conversion drops the fraction (towards zero).  A value of
\* -1 or below has no uint32_t: the conversion is undefined, and a build
\* yields 0 (saturating) or the wrapped value, written here as the negative
\* number with the same 32 bits.
GradeBucket(g) ==
  LET x == 6 * g + 650
  IN  IF x >= 0 THEN {x \div 100}
      ELSE IF x > -100 THEN {0}
      ELSE {0, 0 - ((0 - x) \div 100)}

\* The mean handed on as it is, the no-data value included.
MeanToStoreRaw(mean_elevation) == mean_elevation

\* Lines 113-117: the value handed to set_mean_elevation.
MeanToStore(mean_elevation) ==
  IF mean_elevation = NO_DATA_VALUE THEN kNoElevationData ELSE mean_elevation

\* The selection with the reverse slopes read from the forward fields.
SelectGradesSlopesMixed(entry, forward) ==
  IF forward THEN <<entry[1], entry[3], entry[4]>>
  ELSE <<entry[2], entry[3], entry[4]>>

\* Lines 122-126: <<weighted grade, max up slope, max down slope>> of a
\* record, picked from the cache entry by the record's own forward flag.
SelectGrades(entry, forward) ==
  IF forward THEN <<entry[1], entry[3], entry[4]>>
  ELSE <<entry[2], entry[5], entry[6]>>

\* Lines 106-109: cache.insert
CacheInsert(c, o, entry) ==
  [k \in DOMAIN c \cup {o} |-> IF k \in DOMAIN c THEN c[k] ELSE entry]

\* Lines 123-128: the three setters on the directed edge.
WriteEdge(tb, i, g) ==
  [tb EXCEPT !.directededges[i].weighted_grade = g[1],
             !.directededges[i].max_up_slope   = g[2],
             !.directededges[i].max_down_slope = g[3]]

\* A set_mean_elevation that is never made.
SetMeanElevationForgotten(tb, o, mean) == tb

\* Line 46: header_builder().set_has_elevation(true)
SetHasElevation(tb) == [tb EXCEPT !.has_elevation = TRUE]

\* Lines 114-117: tilebuilder.set_mean_elevation
SetMeanElevation(tb, o, mean) ==
  [tb EXCEPT !.edgeinfo[o].mean_elevation = mean,
             !.edgeinfo[o].mean_set = TRUE]

\* ------------------------------------------------------------- Build
\* The check without filesystem::exists.
ElevationMissingUnlessSet(config) == config.elevation = None

\* Line 196: the elevation path is absent from the config or does not exist.
ElevationMissing(config) == config.elevation # "present"

\* The thread count without the lower bound of 1.
NThreadsUnclamped(config, hw) ==
  IF config.concurrency = <<>> THEN hw ELSE config.concurrency[1]

\* Lines 202-204: max(1, mjolnir.concurrency or hardware_concurrency()).
NThreads(config, hw) ==
  LET configured == IF config.concurrency = <<>> THEN hw ELSE config.concurrency[1]
  IN  IF configured < 1 THEN 1 ELSE configured

\* An enumeration that stops after the first tile of the dataset.
GetTileIdsFirstOnly == {<<1>>}

\* Lines 174-186: get_tile_ids, every tile of the dataset in a shuffled order.
GetTileIds == Orderings(TileSet)

\* Line 166: tilequeue.front()
Front(q) == Head(q)

\* A pop at the wrong end: the id just read stays at the front.
PopBack(q) == SubSeq(q, 1, Len(q) - 1)

\* A pop_front that was left out.
PopFrontForgotten(q) == q

\* Line 167: tilequeue.pop_front()
PopFront(q) == Tail(q)

\* A cache that is not cleared.
ClearCacheForgotten(c) == c

\* Line 51: cache.clear()
ClearCache(c) == EmptyCache

\* additional_data.elevation is absent, names a path that does not exist, or
\* names one that does; mjolnir.concurrency is absent (<<>>) or a number <<n>>.
Configs(concs) ==
  [elevation : {None, "nonexistent", "present"}, concurrency : concs]

InitWith(infos, concs) ==
  /\ pt \in Configs(concs)
  /\ hardware \in IF pt.concurrency = <<>> THEN 0..MaxConcurrency ELSE {0}
  /\ tile_ids \in SeqsUpTo(TileSet, MaxList)
  /\ \E phys \in [Offsets -> infos] : disk = [t \in TileSet |-> InitialTile(t, phys)]
  /\ bpc = "start"
  /\ bi = 0
  /\ nthreads = 0
  /\ sample = FALSE
  /\ lock = 0
  /\ wpc = [w \in Threads |-> "unspawned"]
  /\ tile_id = [w \in Threads |-> 0]
  /\ tilebuilder = [w \in Threads |-> NoTile]
  /\ cache = [w \in Threads |-> EmptyCache]
  /\ idx = [w \in Threads |-> 0]
  /\ over = [w \in Threads |-> FALSE]
  /\ worklist = <<>>
  /\ popped = <<>>
  /\ handed = [t \in TileSet |-> 0]
  /\ miss = [w \in Threads |-> <<>>]
  /\ stores = [t \in TileSet |-> 0]
  /\ trimmed = [w \in Threads |-> FALSE]

Init == InitWith(BasicInfos, {<<>>} \cup {<<n>> : n \in 0..MaxConcurrency})

\* The concurrency configured, one dataset.
FairInit ==
  InitWith({EdgeInfo(200, FALSE, kRoad, FALSE, "hill")}, {<<n>> : n \in 0..MaxConcurrency})

\* One thread, every kind of edge.
TileInit == InitWith(EdgeInfos, {<<1>>})

\* Lines 195-199: no elevation source, warn and return.
BuildSkip ==
  /\ bpc = "start"
  /\ ElevationMissing(pt)
  /\ bpc' = "returned"
  /\ UNCHANGED <<pt, hardware, tile_ids, bi, nthreads, sample, lock, wpc, tile_id,
                 tilebuilder, cache, idx, over, disk, worklist, popped, handed,
                 miss, stores, trimmed>>

\* Lines 201-214: the sample, the thread count, the tile ids, the mutex.
BuildSetup ==
  /\ bpc = "start"
  /\ ~ElevationMissing(pt)
  /\ sample' = TRUE
  /\ nthreads' = NThreads(pt, hardware)
  /\ \E ids \in (IF tile_ids = <<>> THEN GetTileIds ELSE {tile_ids}) :
       /\ tile_ids' = ids
       /\ worklist' = ids
  /\ bpc' = "spawn"
  /\ bi' = 1
  /\ UNCHANGED <<pt, hardware, lock, wpc, tile_id, tilebuilder, cache, idx, over,
                 disk, popped, handed, miss, stores, trimmed>>

\* Lines 215-219: start the next thread.
Spawn ==
  /\ bpc = "spawn"
  /\ wpc' = [wpc EXCEPT ![bi] = "lock"]
  /\ bpc' = IF bi = nthreads THEN "join" ELSE "spawn"
  /\ bi' = IF bi = nthreads THEN 1 ELSE bi + 1
  /\ UNCHANGED <<pt, hardware, tile_ids, nthreads, sample, lock, tile_id,
                 tilebuilder, cache, idx, over, disk, worklist, popped, handed,
                 miss, stores, trimmed>>

\* A join that does not wait for the thread.
JoinedWithoutWaiting(w) == TRUE

\* Line 222: thread->join() returns once the thread has returned.
Joined(w) == wpc[w] = "done"

\* Lines 221-225: join the next thread; after the last one, "Finished".
Join ==
  /\ bpc = "join"
  /\ Joined(bi)
  /\ bpc' = IF bi = nthreads THEN "finished" ELSE "join"
  /\ bi' = bi + 1
  /\ UNCHANGED <<pt, hardware, tile_ids, nthreads, sample, lock, wpc, tile_id,
                 tilebuilder, cache, idx, over, disk, worklist, popped, handed,
                 miss, stores, trimmed>>

\* ---------------------------------- add_elevations_to_multiple_tiles
\* A lock() that does not wait for the mutex to be free.
LockWithoutWaiting(w) ==
  /\ wpc[w] = "lock"
  /\ lock' = w
  /\ wpc' = [wpc EXCEPT ![w] = "locked"]
  /\ UNCHANGED <<pt, hardware, tile_ids, bpc, bi, nthreads, sample, tile_id,
                 tilebuilder, cache, idx, over, disk, worklist, popped, handed,
                 miss, stores, trimmed>>

\* Line 160: lock.lock()
Lock(w) ==
  /\ wpc[w] = "lock"
  /\ lock = 0
  /\ lock' = w
  /\ wpc' = [wpc EXCEPT ![w] = "locked"]
  /\ UNCHANGED <<pt, hardware, tile_ids, bpc, bi, nthreads, sample, tile_id,
                 tilebuilder, cache, idx, over, disk, worklist, popped, handed,
                 miss, stores, trimmed>>

\* Lines 161-164, 172: the queue is empty: unlock, leave the loop and return
\* (the thread's cache goes with it).
ExitEmpty(w) ==
  /\ wpc[w] = "locked"
  /\ tile_ids = <<>>
  /\ lock' = 0
  /\ cache' = [cache EXCEPT ![w] = EmptyCache]
  /\ wpc' = [wpc EXCEPT ![w] = "done"]
  /\ trimmed' = [trimmed EXCEPT ![w] = FALSE]
  /\ UNCHANGED <<pt, hardware, tile_ids, bpc, bi, nthreads, sample, tile_id,
                 tilebuilder, idx, over, disk, worklist, popped, handed,
                 miss, stores>>

\* A pop that keeps the mutex.
PopWithoutUnlock(w) ==
  /\ wpc[w] = "locked"
  /\ tile_ids # <<>>
  /\ tile_id' = [tile_id EXCEPT ![w] = Front(tile_ids)]
  /\ tile_ids' = PopFront(tile_ids)
  /\ popped' = Append(popped, Front(tile_ids))
  /\ wpc' = [wpc EXCEPT ![w] = "open"]
  /\ UNCHANGED <<pt, hardware, bpc, bi, nthreads, sample, lock, tilebuilder, cache,
                 idx, over, disk, worklist, handed, miss, stores, trimmed>>

\* Lines 165-168: take the front tile id and unlock.
Pop(w) ==
  /\ wpc[w] = "locked"
  /\ tile_ids # <<>>
  /\ tile_id' = [tile_id EXCEPT ![w] = Front(tile_ids)]
  /\ tile_ids' = PopFront(tile_ids)
  /\ popped' = Append(popped, Front(tile_ids))
  /\ lock' = 0
  /\ wpc' = [wpc EXCEPT ![w] = "open"]
  /\ UNCHANGED <<pt, hardware, bpc, bi, nthreads, sample, tilebuilder, cache, idx,
                 over, disk, worklist, handed, miss, stores, trimmed>>

\* Lines 42-52: read the tile, flag it, clear the cache.
OpenTile(w) ==
  /\ wpc[w] = "open"
  /\ tilebuilder' = [tilebuilder EXCEPT ![w] = SetHasElevation(disk[tile_id[w]])]
  /\ cache' = [cache EXCEPT ![w] = ClearCache(@)]
  /\ idx' = [idx EXCEPT ![w] = 1]
  /\ handed' = [handed EXCEPT ![tile_id[w]] = @ + 1]
  /\ miss' = [miss EXCEPT ![w] = <<>>]
  /\ wpc' = [wpc EXCEPT ![w] = "edges"]
  /\ trimmed' = [trimmed EXCEPT ![w] = FALSE]
  /\ UNCHANGED <<pt, hardware, tile_ids, bpc, bi, nthreads, sample, lock, tile_id,
                 over, disk, worklist, popped, stores>>

\* Lines 55-129, the offset is not cached: compute, insert, set the mean
\* elevation, then write the record from the new entry.
EdgeMiss(w) ==
  /\ wpc[w] = "edges"
  /\ idx[w] <= Len(tilebuilder[w].directededges)
  /\ LET tb == tilebuilder[w]
         de == tb.directededges[idx[w]]
         o  == de.edgeinfo_offset
     IN  /\ ~CacheFound(cache[w], o)
         /\ \E g \in {Grades(de, tb.edgeinfo[o].shape)} :
            \E forward_grade \in GradeBucket(g.forward_grades[1]),
               reverse_grade \in GradeBucket(g.reverse_grades[1]) :
              LET entry == << forward_grade, reverse_grade,
                              g.forward_grades[2], g.forward_grades[3],
                              g.reverse_grades[2], g.reverse_grades[3] >>
              IN  /\ cache' = [cache EXCEPT ![w] = CacheInsert(@, o, entry)]
                  /\ tilebuilder' =
                       [tilebuilder EXCEPT ![w] =
                          WriteEdge(SetMeanElevation(tb, o, MeanToStore(g.forward_grades[4])),
                                    idx[w], SelectGrades(entry, de.forward))]
                  /\ miss' = [miss EXCEPT ![w] =
                                Append(@, [offset |-> o, at |-> idx[w], grades |-> g])]
  /\ idx' = [idx EXCEPT ![w] = @ + 1]
  /\ UNCHANGED <<pt, hardware, tile_ids, bpc, bi, nthreads, sample, lock, wpc,
                 tile_id, over, disk, worklist, popped, handed, stores, trimmed>>

\* Lines 55-129, the offset is cached: write the record from the entry.
EdgeHit(w) ==
  /\ wpc[w] = "edges"
  /\ idx[w] <= Len(tilebuilder[w].directededges)
  /\ LET tb == tilebuilder[w]
         de == tb.directededges[idx[w]]
         o  == de.edgeinfo_offset
     IN  /\ CacheFound(cache[w], o)
         /\ tilebuilder' =
              [tilebuilder EXCEPT ![w] =
                 WriteEdge(tb, idx[w], SelectGrades(cache[w][o], de.forward))]
  /\ idx' = [idx EXCEPT ![w] = @ + 1]
  /\ UNCHANGED <<pt, hardware, tile_ids, bpc, bi, nthreads, sample, lock, wpc,
                 tile_id, cache, over, disk, worklist, popped, handed, miss, stores, trimmed>>

\* A StoreTileData that may run before the loop over the records has ended.
StoreTileDataEarly(w) ==
  /\ wpc[w] = "edges"
  /\ disk' = [disk EXCEPT ![tile_id[w]] = tilebuilder[w]]
  /\ stores' = [stores EXCEPT ![tile_id[w]] = @ + 1]
  /\ over' \in {[over EXCEPT ![w] = b] : b \in BOOLEAN}
  /\ wpc' = [wpc EXCEPT ![w] = "stored"]
  /\ UNCHANGED <<pt, hardware, tile_ids, bpc, bi, nthreads, sample, lock, tile_id,
                 tilebuilder, cache, idx, worklist, popped, handed, miss, trimmed>>

\* Line 132: StoreTileData.  Reading and writing tiles may leave the
\* thread's graphreader over its budget.
StoreTileData(w) ==
  /\ wpc[w] = "edges"
  /\ idx[w] > Len(tilebuilder[w].directededges)
  /\ disk' = [disk EXCEPT ![tile_id[w]] = tilebuilder[w]]
  /\ stores' = [stores EXCEPT ![tile_id[w]] = @ + 1]
  /\ over' \in {[over EXCEPT ![w] = b] : b \in BOOLEAN}
  /\ wpc' = [wpc EXCEPT ![w] = "stored"]
  /\ UNCHANGED <<pt, hardware, tile_ids, bpc, bi, nthreads, sample, lock, tile_id,
                 tilebuilder, cache, idx, worklist, popped, handed, miss, trimmed>>

\* A return to the loop that does not look at OverCommitted.
SkipTrimOverCommitted(w) ==
  /\ wpc[w] = "stored"
  /\ tilebuilder' = [tilebuilder EXCEPT ![w] = NoTile]
  /\ idx' = [idx EXCEPT ![w] = 0]
  /\ tile_id' = [tile_id EXCEPT ![w] = 0]
  /\ miss' = [miss EXCEPT ![w] = <<>>]
  /\ wpc' = [wpc EXCEPT ![w] = "lock"]
  /\ UNCHANGED <<pt, hardware, tile_ids, bpc, bi, nthreads, sample, lock, cache,
                 over, disk, worklist, popped, handed, stores, trimmed>>

\* Line 135, not over budget: return to the loop (the tilebuilder and the
\* loop's tile_id go out of scope).
SkipTrim(w) ==
  /\ wpc[w] = "stored"
  /\ ~over[w]
  /\ tilebuilder' = [tilebuilder EXCEPT ![w] = NoTile]
  /\ idx' = [idx EXCEPT ![w] = 0]
  /\ tile_id' = [tile_id EXCEPT ![w] = 0]
  /\ miss' = [miss EXCEPT ![w] = <<>>]
  /\ wpc' = [wpc EXCEPT ![w] = "lock"]
  /\ UNCHANGED <<pt, hardware, tile_ids, bpc, bi, nthreads, sample, lock, cache,
                 over, disk, worklist, popped, handed, stores, trimmed>>

\* Lines 135-136, over budget: take the mutex.
TrimLock(w) ==
  /\ wpc[w] = "stored"
  /\ over[w]
  /\ lock = 0
  /\ lock' = w
  /\ wpc' = [wpc EXCEPT ![w] = "trim"]
  /\ UNCHANGED <<pt, hardware, tile_ids, bpc, bi, nthreads, sample, tile_id,
                 tilebuilder, cache, idx, over, disk, worklist, popped, handed,
                 miss, stores, trimmed>>

\* Lines 137-140: Trim, unlock, return to the loop.
Trim(w) ==
  /\ wpc[w] = "trim"
  /\ over' = [over EXCEPT ![w] = FALSE]
  /\ lock' = 0
  /\ tilebuilder' = [tilebuilder EXCEPT ![w] = NoTile]
  /\ idx' = [idx EXCEPT ![w] = 0]
  /\ tile_id' = [tile_id EXCEPT ![w] = 0]
  /\ miss' = [miss EXCEPT ![w] = <<>>]
  /\ wpc' = [wpc EXCEPT ![w] = "lock"]
  /\ trimmed' = [trimmed EXCEPT ![w] = TRUE]
  /\ UNCHANGED <<pt, hardware, tile_ids, bpc, bi, nthreads, sample, cache, disk,
                 worklist, popped, handed, stores>>

ThreadStep(w) ==
  \/ Lock(w)
  \/ ExitEmpty(w)
  \/ Pop(w)
  \/ OpenTile(w)
  \/ EdgeMiss(w)
  \/ EdgeHit(w)
  \/ StoreTileData(w)
  \/ SkipTrim(w)
  \/ TrimLock(w)
  \/ Trim(w)

BuildStep ==
  \/ BuildSkip
  \/ BuildSetup
  \/ Spawn
  \/ Join

Next ==
  \/ BuildStep
  \/ \E w \in Threads : ThreadStep(w)

Spec == Init /\ [][Next]_vars

\* The OS keeps running runnable threads: while some step of Build or of a
\* thread is possible, a step is eventually taken.
Fairness == WF_vars(Next)
FairSpec == FairInit /\ [][Next]_vars /\ Fairness

TileSpec == TileInit /\ [][Next]_vars

\* ------------------------------------------------------------ claims
\* How often x occurs in the sequence q.
Occurrences(q, x) == Cardinality({k \in 1..Len(q) : q[k] = x})

\* The threads Build started.
Started == {w \in Threads : wpc[w] # "unspawned"}

\* Thread w is inside add_elevations_to_single_tile, the tile read.
InTile(w) == wpc[w] \in {"edges", "stored", "trim"}

\* The offset of record k of a tile.
OffsetOf(tb, k) == tb.directededges[k].edgeinfo_offset

\* C1: queue draining.  Once the threads share the queue, the ids popped so
\* far followed by the ids still queued are exactly the work list (every
\* position of the list is popped once, none twice, none skipped); every
\* popped id is handed to add_elevations_to_single_tile once, by the thread
\* that popped it; and when Build has joined its threads the queue is empty
\* and every id of the list was handed over as often as the list holds it.
C1_QueueDraining ==
  bpc \in {"spawn", "join", "finished"} =>
    /\ popped \o tile_ids = worklist
    /\ \A t \in TileSet :
         handed[t] + Cardinality({w \in Threads : wpc[w] = "open" /\ tile_id[w] = t})
           = Occurrences(popped, t)
    /\ bpc = "finished" =>
         /\ tile_ids = <<>>
         /\ \A t \in TileSet : handed[t] = Occurrences(worklist, t)

\* Two threads drained a list of at least two ids and Build has returned.
C1_Witness ==
  /\ bpc = "finished"
  /\ nthreads = 2
  /\ Len(popped) >= 2

\* C2: the pass runs to completion.  With a present elevation source Build
\* eventually reports "Finished"; it does so only when every thread it
\* started has returned; and a thread returns only from a step that found
\* the queue empty.
C2_RunsToCompletion ==
  /\ (pt.elevation = "present") => <>(bpc = "finished")
  /\ [](bpc = "finished" =>
          /\ Started = 1..nthreads
          /\ \A w \in Started : wpc[w] = "done")
  /\ [][\A w \in Threads :
          (wpc[w] # "done" /\ wpc'[w] = "done") => (tile_ids = <<>> /\ tile_ids' = <<>>)]_vars

\* Build has finished a pass of two threads over a non-empty list.
C2_Witness ==
  /\ bpc = "finished"
  /\ nthreads = 2
  /\ worklist # <<>>
  /\ \A w \in 1..2 : wpc[w] = "done"

\* C3: after Build completes with a valid elevation source, every tile of
\* the work list is stored with has_elevation set and with a mean elevation
\* set for every EdgeInfoOffset its directed edges refer to.
C3_TilesPersisted ==
  bpc = "finished" =>
    \A n \in 1..Len(worklist) :
      LET tile == disk[worklist[n]]
      IN  /\ tile.has_elevation
          /\ stores[worklist[n]] >= 1
          /\ \A k \in 1..Len(tile.directededges) :
               tile.edgeinfo[OffsetOf(tile, k)].mean_set

\* Build has finished over a list naming every tile of the dataset.
C3_Witness ==
  /\ bpc = "finished"
  /\ {worklist[n] : n \in 1..Len(worklist)} = TileSet
  /\ \A t \in TileSet : disk[t].has_elevation

\* C4: a configuration error is a no-op.  If the elevation path is absent or
\* does not exist, Build only ever returns: no thread is started, no id is
\* popped, no sample is constructed, no tile is read, changed or stored.
C4_ConfigErrorNoOp ==
  pt.elevation \in {None, "nonexistent"} =>
    /\ bpc \in {"start", "returned"}
    /\ Started = {}
    /\ popped = <<>>
    /\ worklist = <<>>
    /\ ~sample
    /\ lock = 0
    /\ \A t \in TileSet :
         /\ handed[t] = 0
         /\ stores[t] = 0
         /\ ~disk[t].has_elevation
         /\ \A o \in DOMAIN disk[t].edgeinfo :
              /\ ~disk[t].edgeinfo[o].mean_set
              /\ disk[t].edgeinfo[o].mean_elevation = kNoElevationData
    /\ \A w \in Threads : tilebuilder[w] = NoTile /\ cache[w] = EmptyCache

\* Build has returned on a path that does not exist, its tile ids untouched.
C4_Witness ==
  /\ bpc = "returned"
  /\ pt.elevation = "nonexistent"
  /\ Len(tile_ids) = 2

\* The cache misses of thread w's current tile that were for offset o.
MissesOf(w, o) == {j \in 1..Len(miss[w]) : miss[w][j].offset = o}

\* What record k of a tile holds: <<weighted grade, max up, max down>>.
WrittenTo(tb, k) ==
  << tb.directededges[k].weighted_grade,
     tb.directededges[k].max_up_slope,
     tb.directededges[k].max_down_slope >>

\* The flat bucket with zero slopes, as a cache entry.
FlatEntry == <<6, 6, 0, 0, 0, 0>>

\* C5: exactly once per physical edge.  Within the tile a thread is
\* processing, every offset of a visited record had exactly one cache miss
\* (one service query, one weighted-grade run, one mean-elevation write), it
\* happened at the first record visited with that offset, the cache holds
\* one entry per miss, and every visited record with the offset holds the
\* forward or the reverse triple of that entry.
C5_OncePerOffset ==
  \A w \in Threads :
    InTile(w) =>
      LET tb      == tilebuilder[w]
          visited == 1..(idx[w] - 1)
      IN  /\ Len(miss[w]) = Cardinality(DOMAIN cache[w])
          /\ \A k \in visited :
               LET o     == OffsetOf(tb, k)
                   first == SetMin({j \in visited : OffsetOf(tb, j) = o})
               IN  /\ Cardinality(MissesOf(w, o)) = 1
                   /\ \A j \in MissesOf(w, o) : miss[w][j].at = first
                   /\ o \in DOMAIN cache[w]
                   /\ tb.edgeinfo[o].mean_set
                   /\ WrittenTo(tb, k) \in
                        { <<cache[w][o][1], cache[w][o][3], cache[w][o][4]>>,
                          <<cache[w][o][2], cache[w][o][5], cache[w][o][6]>> }

\* Two records sharing an offset were visited and the service was asked once.
C5_Witness ==
  \E w \in Threads :
    /\ InTile(w)
    /\ \E k1, k2 \in 1..(idx[w] - 1) :
         /\ k1 < k2
         /\ OffsetOf(tilebuilder[w], k1) = OffsetOf(tilebuilder[w], k2)
         /\ Cardinality(MissesOf(w, OffsetOf(tilebuilder[w], k1))) = 1
         /\ \A j \in MissesOf(w, OffsetOf(tilebuilder[w], k1)) : miss[w][j].grades.sampled

\* C6: orientation selection.  Every visited record holds the forward
\* bucket and forward slopes of its offset's cache entry when its own
\* forward flag is set and the reverse bucket and reverse slopes otherwise,
\* whichever record populated the entry.
C6_OrientationSelection ==
  \A w \in Threads :
    InTile(w) =>
      \A k \in 1..(idx[w] - 1) :
        LET de == tilebuilder[w].directededges[k]
            e  == cache[w][de.edgeinfo_offset]
        IN  WrittenTo(tilebuilder[w], k) =
              IF de.forward THEN <<e[1], e[3], e[4]>> ELSE <<e[2], e[5], e[6]>>

\* A reverse record took its values from an entry a forward record
\* populated, and the entry's two directions differ.
C6_Witness ==
  \E w \in Threads :
    /\ InTile(w)
    /\ \E k \in 1..(idx[w] - 1) :
         LET de == tilebuilder[w].directededges[k]
             e  == cache[w][de.edgeinfo_offset]
         IN  /\ ~de.forward
             /\ e[1] # e[2] /\ e[3] # e[5] /\ e[4] # e[6]
             /\ \E j \in MissesOf(w, de.edgeinfo_offset) :
                  /\ miss[w][j].at # k
                  /\ tilebuilder[w].directededges[miss[w][j].at].forward

\* C7: when the first record visited for an offset is a tunnel or a ferry,
\* the service is not asked and weighted_grade is not run, and the cache
\* entry is the flat bucket (6) in both directions with all four slopes zero.
C7_TunnelFerrySkipped ==
  \A w \in Threads :
    InTile(w) =>
      \A j \in 1..Len(miss[w]) :
        LET m  == miss[w][j]
            de == tilebuilder[w].directededges[m.at]
        IN  (de.tunnel \/ de.use = kFerry) =>
              /\ ~m.grades.sampled
              /\ m.grades.heights = <<>>
              /\ cache[w][m.offset] = FlatEntry

\* A ferry and a tunnel were both cached in one tile.
C7_Witness ==
  \E w \in Threads :
    /\ InTile(w)
    /\ \E j1, j2 \in 1..Len(miss[w]) :
         /\ tilebuilder[w].directededges[miss[w][j1].at].use = kFerry
         /\ tilebuilder[w].directededges[miss[w][j2].at].tunnel

\* C8: for every tunnel or ferry edge of a tile that was processed, the
\* tile's mean elevation for the edge's offset is still the no-data sentinel.
C8_TunnelMeanStaysNoData ==
  \A t \in TileSet :
    stores[t] >= 1 =>
      \A k \in 1..Len(disk[t].directededges) :
        LET de == disk[t].directededges[k]
        IN  (de.tunnel \/ de.use = kFerry) =>
              disk[t].edgeinfo[de.edgeinfo_offset].mean_elevation = kNoElevationData

\* C9: an edge that is neither tunnel nor ferry and shorter than 10 m gets
\* the flat bucket and zero slopes, and the mean elevation set for its offset
\* is the mean weighted_grade computes from the heights of the shape's two
\* ends over the edge's length (the sentinel when that mean is no data).
C9_ShortEdges ==
  \A w \in Threads :
    InTile(w) =>
      /\ \A j \in 1..Len(miss[w]) :
           LET m    == miss[w][j]
               de   == tilebuilder[w].directededges[m.at]
               info == tilebuilder[w].edgeinfo[m.offset]
               ends == << HeightAt(info.shape[1]), HeightAt(info.shape[Len(info.shape)]) >>
               mean == WeightedGrade(ends, de.length)[4]
           IN  (~de.tunnel /\ de.use # kFerry /\ de.length < 10) =>
                 /\ m.grades.sampled
                 /\ cache[w][m.offset] = FlatEntry
                 /\ info.mean_elevation =
                      IF mean = NO_DATA_VALUE THEN kNoElevationData ELSE mean
      /\ \A k \in 1..(idx[w] - 1) :
           LET de == tilebuilder[w].directededges[k]
           IN  (~de.tunnel /\ de.use # kFerry /\ de.length < 10) =>
                 WrittenTo(tilebuilder[w], k) = <<6, 0, 0>>

\* A short edge has a computed mean elevation, not the sentinel and not 0.
C9_Witness ==
  \E w \in Threads :
    /\ InTile(w)
    /\ \E j \in 1..Len(miss[w]) :
         LET de == tilebuilder[w].directededges[miss[w][j].at]
         IN  /\ ~de.tunnel /\ de.use # kFerry /\ de.length < 10
             /\ tilebuilder[w].edgeinfo[miss[w][j].offset].mean_elevation = 10

\* The weighted grades of a cache miss: <<forward, reverse>>.
MissGrades(m) == << m.grades.forward_grades[1], m.grades.reverse_grades[1] >>

\* C10 as stated: for every weighted grade g the stored bucket is
\* floor(g * 0.6 + 6.5), also when that is negative.
C10_BucketIsFloor ==
  \A w \in Threads :
    InTile(w) =>
      \A j \in 1..Len(miss[w]) :
        \A side \in {1, 2} :
          cache[w][miss[w][j].offset][side] = (6 * MissGrades(miss[w][j])[side] + 650) \div 100

\* C10 as amended: whenever g * 0.6 + 6.5 is not negative the stored bucket
\* is its floor, unclamped (0 gives 6, 15 gives 15, -10 gives 0, 20 gives
\* 18); between -1 and 0 the stored bucket is 0, not the floor -1.
C10_BucketFormula ==
  \A w \in Threads :
    InTile(w) =>
      \A j \in 1..Len(miss[w]) :
        \A side \in {1, 2} :
          LET g == MissGrades(miss[w][j])[side]
              b == cache[w][miss[w][j].offset][side]
          IN  /\ 6 * g + 650 >= 0 => b = (6 * g + 650) \div 100
              /\ (6 * g + 650 < 0 /\ 6 * g + 650 > -100) => b = 0
              /\ g = 0 => b = 6
              /\ g = 150 => b = 15
              /\ g = -100 => b = 0
              /\ g = 200 => b = 18

\* One tile holds a bucket above 15 and a grade whose bucket is cut to 0.
C10_Witness ==
  \E w \in Threads :
    /\ InTile(w)
    /\ \E j1, j2 \in 1..Len(miss[w]) :
         /\ cache[w][miss[w][j1].offset][1] = 18
         /\ MissGrades(miss[w][j2])[2] = -120
         /\ cache[w][miss[w][j2].offset][2] = 0

\* The threads inside a section the mutex guards: lines 161-168 and 137.
InCritical == {w \in Threads : wpc[w] \in {"locked", "trim"}}

\* C11: trim/pop mutual exclusion.  At most one thread is inside a section
\* guarded by the mutex, and it is the thread holding the mutex: a Trim is
\* never concurrent with another thread's emptiness check or pop, nor with
\* another thread's Trim.
C11_MutualExclusion ==
  /\ Cardinality(InCritical) <= 1
  /\ \A w \in Threads : w \in InCritical <=> lock = w
  /\ \A w1, w2 \in Threads :
       (wpc[w1] = "trim" /\ w1 # w2) => wpc[w2] \notin {"locked", "trim"}

\* One thread is trimming while another waits at lock() to pop, tiles still
\* queued.
C11_Witness ==
  \E w1, w2 \in Threads :
    /\ wpc[w1] = "trim"
    /\ wpc[w2] = "lock"
    /\ tile_ids # <<>>

\* C12: eviction progress.  A thread that finds its graphreader over
\* committed after StoreTileData does nothing else before it takes the mutex
\* and trims; Trim runs with the mutex held, only when OverCommitted was
\* true, and leaves it false; so the graphreader is not over committed
\* whenever the thread locks, pops, opens or works on its next tile.
C12_EvictionProgress ==
  /\ [](\A w \in Threads :
          /\ wpc[w] \in {"lock", "locked", "open", "edges"} => ~over[w]
          /\ wpc[w] = "trim" => (over[w] /\ lock = w))
  /\ [][\A w \in Threads :
          /\ (wpc[w] = "stored" /\ over[w]) => wpc'[w] \in {"stored", "trim"}
          /\ (wpc[w] = "stored" /\ ~over[w]) => wpc'[w] \in {"stored", "lock"}
          /\ (wpc[w] # "trim" /\ wpc'[w] = "trim") => (wpc[w] = "stored" /\ over[w])
          /\ (~trimmed[w] /\ trimmed'[w]) =>
               (wpc[w] = "trim" /\ over[w] /\ lock = w /\ ~over'[w])]_vars

\* A thread that trimmed after its last tile has popped the next one, its
\* graphreader no longer over committed.
C12_Witness ==
  \E w \in Threads :
    /\ wpc[w] = "open"
    /\ trimmed[w]
    /\ ~over[w]
    /\ \E t \in TileSet : stores[t] >= 1

\* The ids of a list, as a set.
Range(q) == {q[n] : n \in 1..Len(q)}

\* The tiles some thread has opened.
Opened == {t \in TileSet : handed[t] >= 1}

\* C13: work-list selection.  A non-empty tile_ids is left as supplied by
\* Build and becomes the queue; an empty one is replaced by an ordering of
\* the whole tile set, each id once.  Ids leave the queue from its front
\* only, so in the order of the list; only listed tiles are ever opened or
\* stored, every other tile stays as it was; and when Build has finished the
\* tiles opened are exactly the listed ones.
C13_WorkListSelection ==
  /\ [][(bpc = "start" /\ bpc' = "spawn") =>
          /\ tile_ids # <<>> => (tile_ids' = tile_ids /\ worklist' = tile_ids)
          /\ tile_ids = <<>> =>
               /\ worklist' = tile_ids'
               /\ Len(tile_ids') = Cardinality(TileSet)
               /\ Range(tile_ids') = TileSet]_vars
  /\ [][popped' # popped =>
          /\ tile_ids # <<>>
          /\ popped' = Append(popped, Head(tile_ids))
          /\ tile_ids' = Tail(tile_ids)]_vars
  /\ [](bpc \in {"spawn", "join", "finished"} =>
          /\ popped = SubSeq(worklist, 1, Len(popped))
          /\ Opened \subseteq Range(worklist)
          /\ \A w \in Threads : tile_id[w] # 0 => tile_id[w] \in Range(worklist)
          /\ \A t \in TileSet \ Range(worklist) :
               stores[t] = 0 /\ ~disk[t].has_elevation
          /\ bpc = "finished" => Opened = Range(worklist))

\* Build has finished over a supplied list naming tile 2 twice: tile 2 was
\* opened twice, tile 1 never, and tile 1 is as graphbuilder left it.
C13_Witness ==
  /\ bpc = "finished"
  /\ worklist = <<2, 2>>
  /\ popped = <<2, 2>>
  /\ handed[2] = 2
  /\ handed[1] = 0
  /\ ~disk[1].has_elevation

\* C14: worker count.  Build resolves max(1, configured concurrency, or the
\* hardware parallelism when none is configured) and starts exactly that
\* many threads, never fewer than one (one for a configured 0); so when
\* Build has finished, the queue, empty or not at the start, is drained.
C14_WorkerCount ==
  bpc \in {"spawn", "join", "finished"} =>
    LET configured == IF pt.concurrency = <<>> THEN hardware ELSE pt.concurrency[1]
    IN  /\ nthreads = IF configured > 1 THEN configured ELSE 1
        /\ nthreads >= 1
        /\ pt.concurrency = <<0>> => nthreads = 1
        /\ bpc = "spawn" => Started = 1..(bi - 1)
        /\ bpc \in {"join", "finished"} => Started = 1..nthreads
        /\ bpc = "finished" => (tile_ids = <<>> /\ popped = worklist)

\* A configured concurrency of 0: one thread drained a list of two ids.
C14_Witness ==
  /\ bpc = "finished"
  /\ pt.concurrency = <<0>>
  /\ Started = {1}
  /\ Len(worklist) = 2
  /\ tile_ids = <<>>

\* What weighted_grade returns for the heights of an edge taken backwards.
ReverseRun(de, shape) ==
  WeightedGrade(Reverse(GetAll(Resampled(de, shape))), Interval(de))

\* Record de is neither tunnel nor ferry and at least 10 m long.
GradedEdge(de) == ~de.tunnel /\ de.use # kFerry /\ de.length >= kMinimumInterval

\* C15: for every edge that is neither tunnel nor ferry and at least 10 m
\* long, the reverse bucket of its cache entry is the bucket of the weighted
\* grade, and the reverse slopes are the max up and max down slopes, that
\* weighted_grade returns for the sampled heights in reverse order with the
\* interval of the forward run; every reverse record of the edge holds them.
C15_ReverseFromReversedHeights ==
  \A w \in Threads :
    InTile(w) =>
      /\ \A j \in 1..Len(miss[w]) :
           LET m  == miss[w][j]
               de == tilebuilder[w].directededges[m.at]
               e  == cache[w][m.offset]
           IN  GradedEdge(de) =>
                 \E r \in {ReverseRun(de, tilebuilder[w].edgeinfo[m.offset].shape)} :
                   /\ e[2] \in GradeBucket(r[1])
                   /\ e[5] = r[2]
                   /\ e[6] = r[3]
                   /\ m.grades.interval = Interval(de)
      /\ \A k \in 1..(idx[w] - 1) :
           LET de == tilebuilder[w].directededges[k]
               e  == cache[w][de.edgeinfo_offset]
           IN  (GradedEdge(de) /\ ~de.forward) =>
                 WrittenTo(tilebuilder[w], k) = <<e[2], e[5], e[6]>>

\* A reverse record holds results of a run on reversed heights that are not
\* the negated forward results: the weighted grades are 6.6% and -0.7%.
C15_Witness ==
  \E w \in Threads :
    /\ InTile(w)
    /\ \E j \in 1..Len(miss[w]) :
         LET m == miss[w][j]
         IN  /\ GradedEdge(tilebuilder[w].directededges[m.at])
             /\ m.grades.forward_grades[1] = 66
             /\ m.grades.reverse_grades[1] = -7
             /\ Len(m.grades.heights) = 4
             /\ \E k \in 1..(idx[w] - 1) :
                  /\ OffsetOf(tilebuilder[w], k) = m.offset
                  /\ ~tilebuilder[w].directededges[k].forward
                  /\ WrittenTo(tilebuilder[w], k) = <<6, 33, -167>>

\* The mean elevation of a cache miss: what weighted_grade returns for the
\* sampled heights, or the initial 0 of forward_grades when the edge was
\* not sampled.
ComputedMean(de, shape) ==
  IF ~de.tunnel /\ de.use # kFerry
  THEN WeightedGrade(GetAll(Resampled(de, shape)), Interval(de))[4]
  ELSE 0

\* C16: no-data propagation.  After every cache miss the tile's mean
\* elevation for the offset is set: to the computed mean, or to the no-data
\* sentinel when the computed mean is the service's no-data value; and the
\* edge is processed like any other: the entry is cached and the record
\* written from it.
C16_NoDataPropagation ==
  \A w \in Threads :
    InTile(w) =>
      \A j \in 1..Len(miss[w]) :
        LET m    == miss[w][j]
            tb   == tilebuilder[w]
            de   == tb.directededges[m.at]
            info == tb.edgeinfo[m.offset]
        IN  \E mean \in {ComputedMean(de, info.shape)} :
              /\ info.mean_set
              /\ mean = NO_DATA_VALUE => info.mean_elevation = kNoElevationData
              /\ mean # NO_DATA_VALUE => info.mean_elevation = mean
              /\ m.at < idx[w]
              /\ m.offset \in DOMAIN cache[w]
              /\ WrittenTo(tb, m.at) \in
                   { <<cache[w][m.offset][1], cache[w][m.offset][3], cache[w][m.offset][4]>>,
                     <<cache[w][m.offset][2], cache[w][m.offset][5], cache[w][m.offset][6]>> }

\* The service had no data for a sampled 100 m edge: the sentinel is stored
\* and the tile went on to be stored.
C16_Witness ==
  \E w \in Threads :
    /\ wpc[w] = "stored"
    /\ \E j \in 1..Len(miss[w]) :
         LET m == miss[w][j]
         IN  /\ m.grades.sampled
             /\ m.grades.forward_grades[4] = NO_DATA_VALUE
             /\ tilebuilder[w].directededges[m.at].length = 100
             /\ disk[tile_id[w]].edgeinfo[m.offset].mean_elevation = kNoElevationData
             /\ disk[tile_id[w]].edgeinfo[m.offset].mean_set

\* The offsets of the records thread w has visited in the tile it holds;
\* none before the tile is read.
VisitedOffsets(w) ==
  IF InTile(w) THEN {OffsetOf(tilebuilder[w], k) : k \in 1..(idx[w] - 1)} ELSE {}

\* C17 as stated: at any time every key of a thread's cache is the offset
\* of a record already visited in the thread's current tile.
C17_KeysOfCurrentTileAtAnyTime ==
  \A w \in Threads :
    tile_id[w] # 0 => DOMAIN cache[w] \subseteq VisitedOffsets(w)

\* C17 as amended: the cache is empty at the first lookup of every tile;
\* from then until the tile is stored and the call returns its keys are
\* exactly the offsets of the records visited in that tile, and every entry
\* is the one computed, in this tile and from this tile's data, at the
\* first record visited with the offset.  (Between the return and the clear
\* of the next tile the previous tile's entries are still there, unread.)
C17_CacheReset ==
  \A w \in Threads :
    InTile(w) =>
      LET tb == tilebuilder[w]
      IN  /\ idx[w] = 1 => cache[w] = EmptyCache
          /\ DOMAIN cache[w] = VisitedOffsets(w)
          /\ \A o \in DOMAIN cache[w] :
               \E j \in MissesOf(w, o) :
                 LET m == miss[w][j]
                 IN  \E g \in {Grades(tb.directededges[m.at], tb.edgeinfo[o].shape)} :
                       /\ m.grades = g
                       /\ cache[w][o][1] \in GradeBucket(g.forward_grades[1])
                       /\ cache[w][o][2] \in GradeBucket(g.reverse_grades[1])
                       /\ <<cache[w][o][3], cache[w][o][4]>> =
                            <<g.forward_grades[2], g.forward_grades[3]>>
                       /\ <<cache[w][o][5], cache[w][o][6]>> =
                            <<g.reverse_grades[2], g.reverse_grades[3]>>

\* A thread that cached offsets 1 and 2 in tile 2 is now in tile 1, one
\* record visited, and its cache holds offset 1 only.
C17_Witness ==
  \E w \in Threads :
    /\ wpc[w] = "edges"
    /\ tile_id[w] = 1
    /\ idx[w] = 2
    /\ stores[2] >= 1
    /\ handed[1] = 1
    /\ DOMAIN cache[w] = {1}

\* Thread w is at a lock() call: line 160 or line 136.
AtLock(w) == wpc[w] = "lock" \/ (wpc[w] = "stored" /\ over[w])

\* C18 as stated: a thread holds the mutex only inside the pop section.
C18_HeldOnlyForPop ==
  \A w \in Threads : lock = w => wpc[w] = "locked"

\* C18 as amended: a thread holds the mutex only inside the pop section
\* (lock, emptiness check, pop, unlock) and around Trim; both the empty-queue
\* exit and the pop release it, as does the return from Trim; it is never
\* held while the thread opens, changes or stores a tile; and a running
\* thread can always take its next step unless it is at one of the two
\* lock() calls while another thread holds the mutex.
C18_MutexHoldScope ==
  /\ [](\A w \in Threads :
          /\ lock = w => wpc[w] \in {"locked", "trim"}
          /\ wpc[w] \in {"open", "edges", "stored"} => lock # w
          /\ wpc[w] \in {"locked", "open", "edges", "stored", "trim"} /\ ~AtLock(w)
               => ENABLED ThreadStep(w)
          /\ AtLock(w) => (ENABLED ThreadStep(w) <=> lock = 0))
  /\ [][\A w \in Threads :
          /\ (wpc[w] = "locked" /\ wpc'[w] \in {"done", "open"}) => (lock = w /\ lock' = 0)
          /\ (wpc[w] = "trim" /\ wpc'[w] # "trim") => (lock = w /\ lock' = 0)]_vars

\* One thread holds the mutex for Trim, its tile already stored, while
\* another works on the records of its own tile.
C18_Witness ==
  \E w1, w2 \in Threads :
    /\ lock = w1
    /\ wpc[w1] = "trim"
    /\ wpc[w2] = "edges"
    /\ idx[w2] > 1

\* The number of directed edges of thread w's tile.
Count(w) == Len(tilebuilder[w].directededges)

\* C19: within a tile the records are processed one at a time in
\* increasing index order, each written once: a step of the loop writes the
\* record at the loop index and no other, and moves the index on by one;
\* records not yet reached are as they were read.  A record written without
\* a cache insert finds the entry for its offset already there.  The tile
\* is stored once per opening, only when the index has passed the last
\* record, and the store is the only thing that changes the tile on disk.
C19_SequentialWithinTile ==
  /\ [](\A w \in Threads :
          InTile(w) =>
            /\ idx[w] \in 1..(Count(w) + 1)
            /\ wpc[w] \in {"stored", "trim"} => idx[w] = Count(w) + 1
            /\ \A k \in idx[w]..Count(w) :
                 tilebuilder[w].directededges[k] = disk[tile_id[w]].directededges[k])
  /\ [](\A t \in TileSet :
          stores[t] + Cardinality({w \in Threads : wpc[w] = "edges" /\ tile_id[w] = t})
            = handed[t])
  /\ [][\A w \in Threads :
          (wpc[w] = "edges" /\ tilebuilder'[w] # tilebuilder[w]) =>
            /\ wpc'[w] = "edges"
            /\ idx[w] <= Count(w)
            /\ idx'[w] = idx[w] + 1
            /\ \A k \in 1..Count(w) :
                 k # idx[w] =>
                   tilebuilder'[w].directededges[k] = tilebuilder[w].directededges[k]
            /\ cache'[w] = cache[w] =>
                 /\ OffsetOf(tilebuilder[w], idx[w]) \in DOMAIN cache[w]
                 /\ tilebuilder'[w].edgeinfo = tilebuilder[w].edgeinfo]_vars
  /\ [][\A w \in Threads :
          (wpc[w] = "edges" /\ idx'[w] # idx[w]) =>
            (idx'[w] = idx[w] + 1 /\ idx[w] <= Count(w))]_vars
  /\ [][\A t \in TileSet :
          disk'[t] # disk[t] \/ stores'[t] # stores[t] =>
            /\ stores'[t] = stores[t] + 1
            /\ \E w \in Threads :
                 /\ wpc[w] = "edges" /\ wpc'[w] = "stored"
                 /\ tile_id[w] = t
                 /\ idx[w] = Count(w) + 1
                 /\ disk'[t] = tilebuilder[w]]_vars

\* A tile of three records has been stored once: two records were cache
\* misses, the third read the entry of the first.
C19_Witness ==
  \E w \in Threads :
    /\ wpc[w] = "stored"
    /\ Count(w) = 3
    /\ idx[w] = 4
    /\ Len(miss[w]) = 2
    /\ stores[tile_id[w]] = 1
    /\ disk[tile_id[w]] = tilebuilder[w]

\* No id occurs twice in the list.
NoDuplicates(q) == \A i, j \in 1..Len(q) : q[i] = q[j] => i = j

\* C20: when the tile id list holds no id twice, no two threads ever hold
\* the same tile: every tile is opened at most once and stored at most once,
\* and when Build has finished every listed tile was opened and stored
\* exactly once.
C20_NoTileOpenedTwice ==
  (bpc \in {"spawn", "join", "finished"} /\ NoDuplicates(worklist)) =>
    /\ \A w1, w2 \in Threads :
         (w1 # w2 /\ tile_id[w1] # 0) => tile_id[w1] # tile_id[w2]
    /\ \A t \in TileSet :
         /\ handed[t] <= 1
         /\ stores[t] <= 1
         /\ Cardinality({w \in Threads : tile_id[w] = t}) <= 1
    /\ bpc = "finished" =>
         \A t \in Range(worklist) : handed[t] = 1 /\ stores[t] = 1

\* Two threads work on the records of two different tiles at the same time.
C20_Witness ==
  /\ NoDuplicates(worklist)
  /\ \E w1, w2 \in Threads :
       /\ w1 # w2
       /\ wpc[w1] = "edges" /\ idx[w1] > 1
       /\ wpc[w2] = "edges" /\ idx[w2] > 1
       /\ tile_id[w1] # tile_id[w2]

\* The list names a tile twice and two threads hold that tile at once.
SameTileTwice ==
  \E w1, w2 \in Threads :
    /\ w1 # w2
    /\ wpc[w1] = "edges"
    /\ wpc[w2] = "edges"
    /\ tile_id[w1] = tile_id[w2]

====
